---- MODULE Spec2Model ----
(***************************************************************************)
(* Model of merit_distributor: libmerit.Employee and the three phases of   *)
(* merit_distributor.main (minimum raises, knapsack loop, report).         *)
(*                                                                         *)
(* Python floats are modelled as exact rationals <<n, d>> with d > 0 in    *)
(* lowest terms.  math.log is modelled as a fixed-point logarithm with     *)
(* LnScale units per 1.0 (range reduction by powers of two followed by the *)
(* atanh series).  Python list indices are 0-based, sequences here are     *)
(* 1-based: best_pick keeps the Python value (-1 = nobody).                *)
(***************************************************************************)
EXTENDS Integers, Sequences, FiniteSets, TLC

----------------------------------------------------------------------------
(* Rational arithmetic standing for Python float arithmetic.               *)

Abs(n) == IF n < 0 THEN -n ELSE n

RECURSIVE GCD(_, _)
GCD(a, b) == IF b = 0 THEN a ELSE GCD(b, a % b)

R(n, d) ==
    LET nn == IF d < 0 THEN -n ELSE n
        dd == Abs(d)
        g  == GCD(Abs(nn), dd)
    IN  <<nn \div g, dd \div g>>

RInt(n) == <<n, 1>>
RZero == <<0, 1>>
ROne == <<1, 1>>
RAdd(a, b) == R(a[1] * b[2] + b[1] * a[2], a[2] * b[2])
RSub(a, b) == R(a[1] * b[2] - b[1] * a[2], a[2] * b[2])
RMul(a, b) == R(a[1] * b[1], a[2] * b[2])
RDiv(a, b) == R(a[1] * b[2], a[2] * b[1])
RLt(a, b) == a[1] * b[2] < b[1] * a[2]
RLe(a, b) == a[1] * b[2] <= b[1] * a[2]
RMin(a, b) == IF RLt(b, a) THEN b ELSE a
RFloor(a) == a[1] \div a[2]
RCeil(a) == -((-a[1]) \div a[2])

----------------------------------------------------------------------------
(* math.log(x, 1/e) in fixed point.                                        *)

LnScale == 10000
Ln2Fix == 6931

RECURSIVE LnReduce(_, _, _)
LnReduce(n, d, k) ==
    IF n < d THEN LnReduce(2 * n, d, k - 1)
    ELSE IF n >= 2 * d THEN LnReduce(n, 2 * d, k + 1)
    ELSE <<n, d, k>>

\* LnScale * ln(x) for a rational x > 0
LnFix(x) ==
    LET r  == LnReduce(x[1], x[2], 0)
        m  == R(r[1], r[2])
        z  == ((m[1] - m[2]) * LnScale) \div (m[1] + m[2])
        z2 == (z * z) \div LnScale
        t3 == (z * z2) \div LnScale
        t5 == (t3 * z2) \div LnScale
        t7 == (t5 * z2) \div LnScale
        t9 == (t7 * z2) \div LnScale
    IN  r[3] * Ln2Fix + 2 * (z + t3 \div 3 + t5 \div 5 + t7 \div 7 + t9 \div 9)

\* log(x, 1/euler) = ln(x) / ln(1/e) = -ln(x), in units of 1/LnScale
LogInvE(x) == RInt(-LnFix(x))

----------------------------------------------------------------------------
(* libmerit.Employee                                                       *)

percent_change(old_value, new_value) == RSub(RDiv(new_value, old_value), ROne)

calc_mrp_perc(emp, salary) == RDiv(salary, emp.mrp)

\* the max_perc_increase setter when no value is supplied
DerivedMaxPercIncrease(cur_salary, mrp, mrp_top_range) ==
    percent_change(cur_salary, RMul(mrp_top_range, mrp))

DefaultTopRange == <<6, 5>>
DefaultBottomRange == <<4, 5>>

\* Employee(**kwargs) as built by _employee_from_dictionary: only name,
\* cur_salary, mrp, rating, the band ratios, perf_weight and
\* min_perc_increase can be supplied; the rest takes its default.
NewEmployee(cur_salary, mrp, rating, min_perc_increase) ==
    [ cur_salary        |-> cur_salary,
      mrp               |-> mrp,
      rating            |-> rating,
      mrp_top_range     |-> DefaultTopRange,
      mrp_bottom_range  |-> DefaultBottomRange,
      perf_weight       |-> ROne,
      min_perc_increase |-> min_perc_increase,
      max_perc_increase |-> DerivedMaxPercIncrease(cur_salary, mrp, DefaultTopRange),
      new_salary        |-> cur_salary,
      rounds            |-> 0 ]

new_perc_mrp(emp, increase) == calc_mrp_perc(emp, RAdd(emp.new_salary, increase))

salary_delta(emp) == RSub(emp.new_salary, emp.cur_salary)

salary_perc_delta(emp) == percent_change(emp.cur_salary, emp.new_salary)

win_round(emp, division, r) ==
    [emp EXCEPT !.new_salary = RAdd(@, RMul(division, RInt(r))),
                !.rounds = @ + r]

calc_cost(emp) == emp.rounds + 1

\* the argument handed to log() in _calc_value
ValueLogArg(emp, increase) ==
    LET dist_from_mrp_min ==
            RSub(calc_mrp_perc(emp, RAdd(emp.new_salary, increase)), emp.mrp_bottom_range)
        mrp_delta ==
            RSub(calc_mrp_perc(emp, RAdd(emp.new_salary, increase)), new_perc_mrp(emp, RZero))
    IN  RMul(dist_from_mrp_min, mrp_delta)

\* math.log raises ValueError ("math domain error") on a non-positive argument
LogDomainError(emp, increase) == ~ RLt(RZero, ValueLogArg(emp, increase))

\* the value without the performance weight
calc_value_unweighted(emp, increase) == LogInvE(ValueLogArg(emp, increase))

calc_value(emp, increase) == RMul(emp.perf_weight, LogInvE(ValueLogArg(emp, increase)))

knapsack(emp, increase) == RDiv(calc_value(emp, increase), RInt(calc_cost(emp)))

----------------------------------------------------------------------------
(* Inputs: the options of load_opts and the records of load_emps.          *)

MaxEmps == 2
MaxPool == 3

\* def_opts['perf_translate']
PerfTranslate == (1 :> RZero) @@ (2 :> RZero) @@ (3 :> ROne) @@ (4 :> <<3, 2>>) @@ (5 :> <<2, 1>>)

\* def_opts['min_salary_increase'] = 0.015
MinSalaryIncrease == <<3, 200>>

Options(pool, divisions, bad_performer_gets_min) ==
    [ pool                   |-> pool,
      divisions              |-> divisions,
      perf_translate         |-> PerfTranslate,
      min_salary_increase    |-> MinSalaryIncrease,
      bad_performer_gets_min |-> bad_performer_gets_min ]

\* Salaries against an MRP of 50 (band 40..60): below the band, at the
\* reference point, one division under the top, and above the top.
SmallMrp == RInt(50)
SmallSalaries == {38, 50, 59, 65}
\* rating 7 has no entry in perf_translate
SmallRatings == {2, 3, 4, 7}

EmployeeInputs ==
    { NewEmployee(RInt(s), SmallMrp, r, RZero) : s \in SmallSalaries, r \in SmallRatings }
    \cup { NewEmployee(RInt(61), SmallMrp, 3, RZero),
           NewEmployee(RInt(58), SmallMrp, 3, <<1, 20>>),
           NewEmployee(RInt(50), SmallMrp, 2, <<1, 50>>) }

RECURSIVE SeqsUpTo(_, _)
SeqsUpTo(S, n) ==
    IF n = 0 THEN {<<>>}
    ELSE LET shorter == SeqsUpTo(S, n - 1)
         IN  shorter \cup { Append(q, x) : q \in {t \in shorter : Len(t) = n - 1}, x \in S }

OptionInputs ==
    { Options(p, d, b) : p \in 0..MaxPool, d \in {1, 2}, b \in BOOLEAN }

\* the scenario of the README-sized run: one employee at the reference point
ScenarioOptions == Options(1000, 100, FALSE)
ScenarioEmployees == << NewEmployee(RInt(50000), RInt(50000), 3, RZero) >>

----------------------------------------------------------------------------
(* merit_distributor.main                                                  *)

VARIABLES opts, yam_emps, employees, pool_remaining, pc, idx, err, best_pick, iterations, stdout

vars == <<opts, yam_emps, employees, pool_remaining, pc, idx, err, best_pick, iterations, stdout>>

Init ==
    /\ \/ /\ opts \in OptionInputs
          /\ employees \in SeqsUpTo(EmployeeInputs, MaxEmps)
       \/ /\ opts = ScenarioOptions
          /\ employees = ScenarioEmployees
    /\ yam_emps = employees
    /\ pool_remaining = opts.pool
    /\ pc = "phase1"
    /\ idx = 1
    /\ err = "none"
    /\ best_pick = -1
    /\ iterations = 0
    /\ stdout = <<>>

\* lines 22-26: the minimum increase when the record leaves it unset
ResolveMinPercIncrease(emp, o) ==
    IF emp.min_perc_increase = RZero
    THEN LET m == RMin(o.min_salary_increase, emp.max_perc_increase)
         IN  IF emp.perf_weight # RZero \/ o.bad_performer_gets_min
             THEN m
             ELSE RMin(m, RZero)
    ELSE emp.min_perc_increase

\* lines 29-30: a zero weight collapses the maximum to the minimum
ResolveMaxPercIncrease(emp) ==
    IF emp.perf_weight = RZero THEN emp.min_perc_increase ELSE emp.max_perc_increase

\* the percentage taken of the salary delta (still 0) instead of the salary
ApplyMinimumRaiseOnDelta(emp) ==
    [emp EXCEPT !.new_salary = RAdd(@, RMul(salary_delta(emp), emp.min_perc_increase))]

\* line 32
ApplyMinimumRaise(emp) ==
    [emp EXCEPT !.new_salary = RAdd(@, RMul(@, emp.min_perc_increase))]

\* rounding the minimum raise down instead of up
RoundsToApplyFloor(emp, divisions) == RFloor(RDiv(salary_delta(emp), RInt(divisions)))

\* line 33
RoundsToApply(emp, divisions) == RCeil(RDiv(salary_delta(emp), RInt(divisions)))

\* the minimum raise credited through win_round, which adds the divisions
\* to new_salary a second time
Phase1EmployeeViaWinRound(emp, o) ==
    LET e1 == [emp EXCEPT !.perf_weight = o.perf_translate[emp.rating]]
        e2 == [e1 EXCEPT !.min_perc_increase = ResolveMinPercIncrease(e1, o)]
        e3 == [e2 EXCEPT !.max_perc_increase = ResolveMaxPercIncrease(e2)]
        e4 == ApplyMinimumRaise(e3)
    IN  win_round(e4, RInt(o.divisions), RoundsToApply(e4, o.divisions))

\* lines 19-34 for one employee whose rating is in the table
Phase1Employee(emp, o) ==
    LET e1 == [emp EXCEPT !.perf_weight = o.perf_translate[emp.rating]]
        e2 == [e1 EXCEPT !.min_perc_increase = ResolveMinPercIncrease(e1, o)]
        e3 == [e2 EXCEPT !.max_perc_increase = ResolveMaxPercIncrease(e2)]
        e4 == ApplyMinimumRaise(e3)
    IN  [e4 EXCEPT !.rounds = @ + RoundsToApply(e4, o.divisions)]

\* an off-by-one test of the overdraft
PoolOverdrawnOffByOne(pool) == pool < -1

\* line 37
PoolOverdrawn(pool) == pool < 0

\* One pass of the loop of lines 18-38, or its exit when the list is done.
Phase1Step ==
    /\ pc = "phase1"
    /\ IF idx > Len(employees)
       THEN /\ pc' = "phase2"
            /\ UNCHANGED <<employees, pool_remaining, idx, err>>
       ELSE IF employees[idx].rating \notin DOMAIN opts.perf_translate
       THEN /\ pc' = "failed"
            /\ err' = "KeyError"
            /\ UNCHANGED <<employees, pool_remaining, idx>>
       ELSE LET emp == Phase1Employee(employees[idx], opts)
                rounds == emp.rounds - employees[idx].rounds
                pool == pool_remaining - rounds * opts.divisions
            IN  /\ employees' = [employees EXCEPT ![idx] = emp]
                /\ pool_remaining' = pool
                /\ IF PoolOverdrawn(pool)
                   THEN pc' = "failed" /\ err' = "InsufficientPool" /\ idx' = idx
                   ELSE pc' = "phase1" /\ err' = err /\ idx' = idx + 1
    /\ UNCHANGED <<opts, yam_emps, best_pick, iterations, stdout>>

\* the ceiling tested on the salary before the division is added
UnderCeilingBeforeIncrease(emp, increase) == RLt(new_perc_mrp(emp, RZero), emp.mrp_top_range)

\* line 47, second conjunct: the division keeps the employee under the band top
UnderCeiling(emp, increase) == RLt(new_perc_mrp(emp, increase), emp.mrp_top_range)

\* a non-strict comparison, which lets a later employee take a tie
BeatsBestOrTies(my_ks, max_knapsack) == RLe(max_knapsack, my_ks)

\* line 47, first conjunct
BeatsBest(my_ks, max_knapsack) == RLt(max_knapsack, my_ks)

\* lines 43-49: the scan of one iteration, employee i onwards.  The result
\* is the exception raised by knapsack(), if any, and best_pick.
RECURSIVE Scan(_, _, _, _, _)
Scan(emps, division, i, best, max_knapsack) ==
    IF i > Len(emps)
    THEN [raised |-> "none", best_pick |-> best]
    ELSE IF LogDomainError(emps[i], division)
    THEN [raised |-> "ValueError", best_pick |-> best]
    ELSE IF calc_cost(emps[i]) = 0
    THEN [raised |-> "ZeroDivisionError", best_pick |-> best]
    ELSE LET my_ks == knapsack(emps[i], division)
         IN  IF BeatsBest(my_ks, max_knapsack) /\ UnderCeiling(emps[i], division)
             THEN Scan(emps, division, i + 1, i - 1, my_ks)
             ELSE Scan(emps, division, i + 1, best, max_knapsack)

ScanAll(emps, divisions) == Scan(emps, RInt(divisions), 1, -1, RZero)

\* a strict loop test, which leaves the last division unspent
LoopConditionStrict(pool, divisions) == pool > divisions

\* line 41
LoopCondition(pool, divisions) == pool >= divisions

\* One iteration of the loop of lines 41-54.  Line 53 adds a list to a
\* number, which raises TypeError before pool_remaining is assigned.
Phase2Iteration ==
    /\ pc = "phase2"
    /\ LoopCondition(pool_remaining, opts.divisions)
    /\ LET scan == ScanAll(employees, opts.divisions)
       IN  /\ pool_remaining' = pool_remaining - opts.divisions
           /\ iterations' = iterations + 1
           /\ IF scan.raised # "none"
              THEN /\ pc' = "failed"
                   /\ err' = scan.raised
                   /\ UNCHANGED <<employees, best_pick>>
              ELSE IF scan.best_pick >= 0
              THEN /\ employees' = [employees EXCEPT ![scan.best_pick + 1] =
                                        win_round(@, RInt(opts.divisions), 1)]
                   /\ best_pick' = scan.best_pick
                   /\ UNCHANGED <<pc, err>>
              ELSE /\ pc' = "failed"
                   /\ err' = "TypeError"
                   /\ best_pick' = scan.best_pick
                   /\ UNCHANGED employees
    /\ UNCHANGED <<opts, yam_emps, idx, stdout>>

\* line 58, one line per employee
ReportLine(emp) ==
    [ cur_salary |-> emp.cur_salary,
      new_salary |-> emp.new_salary,
      rounds     |-> emp.rounds,
      direction  |-> IF RLe(RZero, salary_perc_delta(emp)) THEN "increase" ELSE "decrease" ]

\* line 59: the leftover is printed only when it is positive
PoolLine(pool) == IF pool > 0 THEN << [pool_remaining |-> pool] >> ELSE <<>>

\* lines 57-59, reached when the loop condition of line 41 fails
Report ==
    /\ pc = "phase2"
    /\ ~ LoopCondition(pool_remaining, opts.divisions)
    /\ stdout' = [i \in 1..Len(employees) |-> ReportLine(employees[i])] \o PoolLine(pool_remaining)
    /\ pc' = "done"
    /\ UNCHANGED <<opts, yam_emps, employees, pool_remaining, idx, err, best_pick, iterations>>

Next == Phase1Step \/ Phase2Iteration \/ Report

Spec == Init /\ [][Next]_vars

----------------------------------------------------------------------------
(* Vocabulary of the properties                                            *)

Division == RInt(opts.divisions)

\* employees whose Phase 1 pass has run (idx is Len(employees) + 1 once the
\* loop is over; the pass that overdraws the pool has already changed its
\* employee when it raises)
Processed(i) ==
    /\ i \in 1..Len(employees)
    /\ (i < idx \/ (i = idx /\ err = "InsufficientPool"))

InPhase2 == pc \in {"phase2", "done"} \/ err \in {"ValueError", "ZeroDivisionError", "TypeError"}

\* the scan of the coming iteration ends without an exception and without a pick
NoWinner ==
    LET scan == ScanAll(employees, opts.divisions)
    IN  scan.raised = "none" /\ scan.best_pick = -1

IterationStarts == pc = "phase2" /\ pool_remaining >= opts.divisions

\* (new_salary + division) / mrp >= mrp_top_range
AtCeiling(emp) ==
    RLe(emp.mrp_top_range, RDiv(RAdd(emp.new_salary, Division), emp.mrp))

RECURSIVE SumDeltas(_, _)
SumDeltas(emps, i) ==
    IF i > Len(emps) THEN RZero
    ELSE RAdd(RSub(emps[i].new_salary, emps[i].cur_salary), SumDeltas(emps, i + 1))

IsScenario == opts = ScenarioOptions /\ yam_emps = ScenarioEmployees

----------------------------------------------------------------------------
(* C1: when the scan of a Phase 2 iteration finds no winner, the division  *)
(* taken at the top of the iteration is put back (the remaining pool is    *)
(* what it was when the iteration started), the loop ends without an       *)
(* error, and no employee's new_salary or rounds changes.                  *)
C1_NoWinnerRestoresPool ==
    [][ (IterationStarts /\ NoWinner)
            => /\ pool_remaining' = pool_remaining
               /\ err' = "none"
               /\ employees' = employees ]_vars

(* C2: an employee whose log argument is non-positive is just not a        *)
(* candidate of the iteration; the iteration does not raise.               *)
C2_DomainErrorSkipsCandidate ==
    [][ (IterationStarts /\ \E i \in 1..Len(employees) : LogDomainError(employees[i], Division))
            => err' # "ValueError" ]_vars

(* C3: the pool is negative exactly when the run has failed with the       *)
(* insufficient-pool error, raised at the Phase 1 employee whose charge    *)
(* made it negative; such a run has no Phase 2 iteration and no award.     *)
C3_InsufficientPoolAborts ==
    /\ (pool_remaining < 0) <=> (err = "InsufficientPool")
    /\ err = "InsufficientPool"
          => /\ pc = "failed"
             /\ idx \in 1..Len(employees)
             /\ employees[idx].rounds > 0
             /\ iterations = 0
             /\ best_pick = -1
             /\ stdout = <<>>

C3_Witness ==
    /\ err = "InsufficientPool"
    /\ idx = 2
    /\ pool_remaining + employees[2].rounds * opts.divisions >= 0

(* C4: new_salary >= cur_salary for every employee in every state.         *)
C4_NewSalaryAtLeastCurrent ==
    \A i \in 1..Len(employees) : RLe(employees[i].cur_salary, employees[i].new_salary)

(* C5: a Phase 2 award leaves its winner strictly under the band top       *)
(* (new_salary / mrp < mrp_top_range), and an employee whose next division *)
(* would reach the top is not changed by the iteration.                    *)
C5_AwardStaysUnderCeiling ==
    [][ (pc = "phase2" /\ employees' # employees)
            => /\ best_pick' \in 0..(Len(employees) - 1)
               /\ LET w == employees'[best_pick' + 1]
                  IN  RLt(RDiv(w.new_salary, w.mrp), w.mrp_top_range)
               /\ \A i \in 1..Len(employees) :
                     AtCeiling(employees[i]) => employees'[i] = employees[i] ]_vars

\* an award was just made while an employee with a greater ratio than the
\* winner had was at its ceiling
C5_Witness ==
    /\ pc = "phase2"
    /\ best_pick >= 0
    /\ LET w == best_pick + 1
           before == win_round(employees[w], Division, -1)
       IN  \E j \in 1..Len(employees) :
              /\ j # w
              /\ AtCeiling(employees[j])
              /\ RLt(knapsack(before, Division), knapsack(employees[j], Division))

(* C6: in every state of Phase 2 the remaining pool is >= 0, and the sum   *)
(* of new_salary - cur_salary over the employees is at most the configured *)
(* pool, in Phase 2 and in every Phase 1 state of a run that has not       *)
(* aborted.                                                                *)
C6_NeverAllocatesMoreThanPool ==
    /\ InPhase2 => pool_remaining >= 0
    /\ (InPhase2 \/ pc = "phase1") => RLe(SumDeltas(employees, 1), RInt(opts.pool))

\* a run that spent its whole pool on minimum raises and awards
C6_Witness ==
    /\ pc = "done"
    /\ iterations > 0
    /\ pool_remaining = 0
    /\ RLt(RZero, SumDeltas(employees, 1))

(* C7: Phase 2 runs at most pool / divisions iterations, pool being the    *)
(* configured pool.                                                        *)
C7_IterationsBoundedByPool == iterations * opts.divisions <= opts.pool

(* C8: when a rating has no entry in perf_translate the run fails with the *)
(* lookup error with no employee changed and the pool not charged.         *)
C8_LookupFailsBeforeAllocation ==
    err = "KeyError"
        => /\ pool_remaining = opts.pool
           /\ \A i \in 1..Len(employees) :
                 /\ employees[i].new_salary = employees[i].cur_salary
                 /\ employees[i].rounds = 0

(* C9: an employee whose rating maps to weight 0, loaded without a minimum *)
(* increase, with bad_performer_gets_min false, gets min_perc_increase 0   *)
(* and max_perc_increase 0 and keeps new_salary = cur_salary, rounds = 0.  *)
C9_ZeroPerformerUnchanged ==
    \A i \in 1..Len(employees) :
        ( /\ Processed(i)
          /\ employees[i].rating \in DOMAIN opts.perf_translate
          /\ opts.perf_translate[employees[i].rating] = RZero
          /\ ~ opts.bad_performer_gets_min
          /\ yam_emps[i].min_perc_increase = RZero )
            => /\ employees[i].min_perc_increase = RZero
               /\ employees[i].max_perc_increase = RZero
               /\ employees[i].new_salary = employees[i].cur_salary
               /\ employees[i].rounds = 0

(* C10 as stated: in the scenario (pool 1000, division 100, one employee   *)
(* at 50000 with MRP 50000, rating 3) Phase 1 charges one division and     *)
(* leaves 900, and the loop stops at the band top with a leftover printed. *)
C10_ScenarioAsStated ==
    IsScenario
        => /\ (pc = "phase1" /\ idx = 2) => (pool_remaining = 900 /\ employees[1].rounds = 1)
           /\ pc \in {"done", "failed"}
                 => /\ AtCeiling(employees[1])
                    /\ pool_remaining > 0

(* C10 amended: in the scenario Phase 1 charges eight divisions            *)
(* (ceil(750 / 100)) and leaves 200; Phase 2 awards two divisions; the     *)
(* loop ends with the pool exhausted, the employee at 50950 after 10       *)
(* rounds, under the band top, and no leftover line is printed.            *)
C10_ScenarioAmended ==
    IsScenario
        => /\ pc # "failed"
           /\ (pc = "phase1" /\ idx = 2)
                 => /\ pool_remaining = 200
                    /\ employees[1].rounds = 8
                    /\ employees[1].new_salary = RInt(50750)
           /\ pc = "done"
                 => /\ iterations = 2
                    /\ pool_remaining = 0
                    /\ employees[1].new_salary = RInt(50950)
                    /\ employees[1].rounds = 10
                    /\ ~ AtCeiling(employees[1])
                    /\ Len(stdout) = 1

C10_Witness == IsScenario /\ pc = "done" /\ iterations = 2

(* C11: rounds of every employee is never negative, so the cost           *)
(* rounds + 1 of a knapsack ratio is at least 1.                           *)
C11_RoundsNeverNegative ==
    \A i \in 1..Len(employees) : employees[i].rounds >= 0

(* C12: once Phase 1 has processed an employee, its new_salary is more     *)
(* than cur_salary * (1 + min_perc_increase) minus one division.           *)
C12_MinimumRaiseReached ==
    \A i \in 1..Len(employees) :
        Processed(i)
            => RLt(RSub(RMul(employees[i].cur_salary,
                             RAdd(ROne, employees[i].min_perc_increase)),
                        Division),
                   employees[i].new_salary)

\* Phase 1 is over and an employee holds a minimum raise larger than a division
C12_Witness ==
    /\ pc = "phase2"
    /\ \E i \in 1..Len(employees) :
          /\ RLt(Division, RMul(employees[i].cur_salary, employees[i].min_perc_increase))
          /\ employees[i].new_salary =
                RMul(employees[i].cur_salary, RAdd(ROne, employees[i].min_perc_increase))

\* employees that may win the coming iteration: under the band top with the
\* division added, and with a positive ratio
EligibleSet ==
    { i \in 1..Len(employees) :
        /\ ~ AtCeiling(employees[i])
        /\ RLt(RZero, knapsack(employees[i], Division)) }

(* C14: the winner of a Phase 2 iteration is eligible, no eligible         *)
(* employee has a greater ratio, and every eligible employee before it in  *)
(* input order has a strictly smaller ratio; ineligible employees do not   *)
(* count.                                                                  *)
C14_WinnerIsFirstBestEligible ==
    [][ (pc = "phase2" /\ employees' # employees)
            => LET w == best_pick' + 1
                   ks(i) == knapsack(employees[i], Division)
               IN  /\ w \in EligibleSet
                   /\ \A j \in EligibleSet :
                         /\ RLe(ks(j), ks(w))
                         /\ j < w => RLt(ks(j), ks(w)) ]_vars

\* an award was just made to the first of two eligible employees with the
\* same ratio
C14_Witness ==
    /\ pc = "phase2"
    /\ best_pick >= 0
    /\ LET w == best_pick + 1
           before == win_round(employees[w], Division, -1)
       IN  \E j \in 1..Len(employees) :
              /\ j > w
              /\ ~ AtCeiling(employees[j])
              /\ knapsack(employees[j], Division) = knapsack(before, Division)
              /\ RLt(RZero, knapsack(before, Division))

\* ceil(cur_salary * min_perc_increase / divisions), the divisions of line 33
MinimumRaiseRounds(emp) ==
    RCeil(RDiv(RMul(emp.cur_salary, emp.min_perc_increase), Division))

(* C15 as stated: right after Phase 1 has processed an employee its        *)
(* new_salary is cur_salary * (1 + min_perc_increase) plus the rounded-up  *)
(* divisions, and rounds is that number of divisions.                      *)
C15_MinimumCreditedByIncrement ==
    \A i \in 1..Len(employees) :
        (Processed(i) /\ iterations = 0)
            => /\ employees[i].new_salary =
                     RAdd(RMul(employees[i].cur_salary,
                               RAdd(ROne, employees[i].min_perc_increase)),
                          RMul(Division, RInt(MinimumRaiseRounds(employees[i]))))
               /\ employees[i].rounds = MinimumRaiseRounds(employees[i])

(* C15 amended: Phase 1 counts the rounded-up divisions in rounds without  *)
(* adding them to new_salary: right after Phase 1 new_salary is            *)
(* cur_salary * (1 + min_perc_increase) and rounds is the number of        *)
(* divisions; afterwards new_salary exceeds that by one division for each  *)
(* round beyond those of Phase 1.                                          *)
C15_MinimumCountedNotCredited ==
    \A i \in 1..Len(employees) :
        Processed(i)
            => /\ employees[i].rounds >= MinimumRaiseRounds(employees[i])
               /\ employees[i].new_salary =
                     RAdd(RMul(employees[i].cur_salary,
                               RAdd(ROne, employees[i].min_perc_increase)),
                          RMul(Division,
                               RInt(employees[i].rounds - MinimumRaiseRounds(employees[i]))))
               /\ iterations = 0 => employees[i].rounds = MinimumRaiseRounds(employees[i])

\* an employee with Phase 1 divisions has also won a Phase 2 division
C15_Witness ==
    /\ pc = "phase2"
    /\ best_pick >= 0
    /\ MinimumRaiseRounds(employees[best_pick + 1]) > 0
    /\ employees[best_pick + 1].rounds > MinimumRaiseRounds(employees[best_pick + 1])

(* C16: an employee whose perf_weight is zero is not changed by any        *)
(* Phase 2 iteration, whatever bad_performer_gets_min is.                  *)
C16_ZeroWeightNeverWins ==
    [][ pc = "phase2"
            => \A i \in 1..Len(employees) :
                  employees[i].perf_weight = RZero
                      => /\ employees'[i].new_salary = employees[i].new_salary
                         /\ employees'[i].rounds = employees[i].rounds ]_vars

\* an award went to somebody else while a zero-weight employee that holds
\* its minimum raise was under the band top
C16_Witness ==
    /\ pc = "phase2"
    /\ best_pick >= 0
    /\ opts.bad_performer_gets_min
    /\ \E i \in 1..Len(employees) :
          /\ i # best_pick + 1
          /\ employees[i].perf_weight = RZero
          /\ employees[i].rounds > 0
          /\ ~ AtCeiling(employees[i])

(* C17: once Phase 1 has resolved an employee's bounds,                    *)
(* min_perc_increase <= max_perc_increase, also for a record loaded with   *)
(* its own min_perc_increase.                                              *)
C17_MinAtMostMax ==
    \A i \in 1..Len(employees) :
        Processed(i) => RLe(employees[i].min_perc_increase, employees[i].max_perc_increase)

(* C18: after its Phase 1 pass and after every Phase 2 award, an           *)
(* employee's salary_perc_delta is at most its max_perc_increase.          *)
C18_NeverAboveOwnMaximum ==
    \A i \in 1..Len(employees) :
        Processed(i) => RLe(salary_perc_delta(employees[i]), employees[i].max_perc_increase)

RECURSIVE SumRounds(_, _)
SumRounds(emps, i) ==
    IF i > Len(emps) THEN 0 ELSE emps[i].rounds + SumRounds(emps, i + 1)

(* C19: after each completed Phase 1 pass and each completed Phase 2       *)
(* iteration (award or no-winner exit), pool - pool_remaining equals       *)
(* divisions times the sum of rounds over the employees.                   *)
C19_PoolAccounting ==
    err \notin {"ValueError", "ZeroDivisionError"}
        => opts.pool - pool_remaining = opts.divisions * SumRounds(employees, 1)

====
